---- MODULE Spec2Model ----
(***************************************************************************)
(* Position exit state machine of the sniper bot:                          *)
(*   core/sell_strategy_manager.py  (SellStrategyManager, "the Engine")    *)
(*   core/order_executor.py         (OrderExecutor, "the Coordinator")     *)
(*                                                                         *)
(* The program is a single asyncio event loop.  A task runs without        *)
(* interruption from one await that really suspends to the next one, so    *)
(* every action below is one such run-to-suspension segment of one task.   *)
(*                                                                         *)
(* Numbers.  Prices and quantities are Python floats; they are modelled as *)
(* exact fixed-point integers (prices in 1/100 of a quote unit, quantities *)
(* in 1/QtyUnit of a base unit) chosen so that every percentage the code   *)
(* computes is exact.  Wall-clock time is a counter `now`; one step of it  *)
(* stands both for the resolution of int(time.time()) in strategy ids and  *)
(* for one unit of time_based_minutes.                                     *)
(*                                                                         *)
(* Python dicts are objects: `strategy = self.active_strategies[id]` takes *)
(* a reference.  Strategy dicts therefore live in a heap (`strategies`),   *)
(* and active_strategies, the tasks' local variables and the handlers'     *)
(* local variables hold heap indices.                                      *)
(***************************************************************************)
EXTENDS Integers, Sequences, FiniteSets, TLC

VARIABLES
    now,                \* wall clock (time.time(), datetime.now())
    config,             \* Config.* defaults used by add_strategy
    strategies,         \* heap of strategy dicts, in creation order
    active_strategies,  \* SellStrategyManager.active_strategies: id -> dict
    monitoring_tasks,   \* SellStrategyManager.monitoring_tasks: id -> task
    tasks,              \* the _monitor_price tasks, one per add_strategy call
    orders              \* sell orders placed: record, monitor task, callbacks

vars == <<now, config, strategies, active_strategies, monitoring_tasks,
          tasks, orders>>

----------------------------------------------------------------------------
(* Bounds of the model *)

MaxStrategies == 2
MaxOrders == 2
MaxClock == 1
\* orders placed in a run of the executor's retry logic: one more than the
\* retry budget allows one chain to hold, plus one
MaxChain == 7
\* direct calls of execute_market_sell in such a run
MaxLogicalOrders == 1
\* calls of execute_market_buy and execute_market_sell in a run of the
\* executor's placement logic
MaxCalls == 2
\* callbacks registered for one order
MaxCallbacks == 3
\* orders placed in a run of the manager with orders that fail: one sell
\* order of a strategy, its replacement, and one more
MaxReplaced == 3
\* strategies in such a run
MaxReplacedStrategies == 1
\* callbacks registered for one order in a run of the monitors of buy
\* orders with the manager
MaxBuyCallbacks == 1

(* Program constants *)

\* trailing_stop_price = None; the code only ever tests its truthiness,
\* which None and 0.0 share
NoPrice == 0

\* sell_callbacks: the Telegram bot registers send_profit_notification
SellCallbacks == 1

\* Config.MAX_RETRY_ATTEMPTS (the default)
MaxRetryAttempts == 5

\* Config.MIN_ORDER_USDT (the default, 1.0 USDT) in units of 0.00001 USDT
MinOrderUsdt == 100000

\* the default of execute_market_sell's parameter max_retries
SellMaxRetries == 3

\* average prices at which the buys that create strategies were filled (100.00)
BuyPrices == {10000}

\* one base unit of quantity; a sell halves a quantity at most, so one
\* binary digit per order keeps the arithmetic exact
QtyUnit == 2 ^ (MaxOrders + 1)

Symbols == {"BTCUSDT"}

\* prices the ticker can report: 90.00 (the stop-loss price), 110.00 (the
\* trailing stop's activation price), 120.00 (the take-profit price)
Prices == {9000, 11000, 12000}

\* quantities of the buy fills that create strategies (10 base units)
Quantities == {10 * QtyUnit}

\* Config: the defaults of utils/config.py with the trailing stop activated
\* at +10 % and a short time-based exit, and the same with a 50 % partial
\* take-profit and no time-based exit
Configs ==
    { [take_profit_percentage |-> 20, tp_sell_percentage |-> 100,
       stop_loss_percentage |-> 10, trailing_stop_percentage |-> 5,
       tsl_min_activation_percentage |-> 10, time_based_minutes |-> 1],
      [take_profit_percentage |-> 20, tp_sell_percentage |-> 50,
       stop_loss_percentage |-> 10, trailing_stop_percentage |-> 5,
       tsl_min_activation_percentage |-> 10, time_based_minutes |-> 0] }

StrategyIds == Symbols \X (0 .. MaxClock)

----------------------------------------------------------------------------
(* Helpers *)

\* x * (1 + p/100) and x * (1 - p/100)
PctUp(x, p) == (x * (100 + p)) \div 100
PctDown(x, p) == (x * (100 - p)) \div 100

\* dict[key] = value
Put(f, k, v) == [x \in DOMAIN f \cup {k} |-> IF x = k THEN v ELSE f[x]]
\* del dict[key]
Del(f, k) == [x \in DOMAIN f \ {k} |-> f[x]]

EmptyMap == [x \in {} |-> 0]

----------------------------------------------------------------------------
(* SellStrategyManager: pure parts *)

\* f"{symbol}_{int(time.time())}"
StrategyId(symbol, t) == <<symbol, t>>

NewStrategy(symbol, buy_price, quantity, cfg, t) ==
    [symbol |-> symbol,
     buy_price |-> buy_price,
     quantity |-> quantity,
     original_quantity |-> quantity,
     take_profit_price |-> PctUp(buy_price, cfg.take_profit_percentage),
     tp_sell_percentage |-> cfg.tp_sell_percentage,
     tp_executed |-> FALSE,
     stop_loss_price |-> PctDown(buy_price, cfg.stop_loss_percentage),
     trailing_stop_percentage |-> cfg.trailing_stop_percentage,
     trailing_stop_price |-> NoPrice,
     tsl_activation_price |-> PctUp(buy_price, cfg.tsl_min_activation_percentage),
     tsl_activated |-> FALSE,
     highest_price |-> buy_price,
     time_based_minutes |-> cfg.time_based_minutes,
     start_time |-> t,
     status |-> "ACTIVE",
     executed |-> FALSE]

\* _update_price_tracking on one strategy dict
UpdatePriceTrackingBroken(s, current_price) ==
    IF s.tsl_activated /\ s.trailing_stop_percentage > 0
    THEN [s EXCEPT !.highest_price =
                       IF current_price > @ THEN current_price ELSE @,
                   !.trailing_stop_price =
                       PctDown(current_price, s.trailing_stop_percentage)]
    ELSE IF current_price > s.highest_price
              /\ s.trailing_stop_percentage > 0
              /\ current_price >= s.tsl_activation_price
         THEN [s EXCEPT !.highest_price = current_price,
                        !.trailing_stop_price =
                            PctDown(current_price, s.trailing_stop_percentage),
                        !.tsl_activated = TRUE]
         ELSE [s EXCEPT !.highest_price =
                            IF current_price > @ THEN current_price ELSE @]

UpdatePriceTrackingLastPrice(s, current_price) ==
    [s EXCEPT !.highest_price = current_price]

UpdatePriceTrackingNoRatchet(s, current_price) ==
    IF current_price > s.highest_price
    THEN LET h == [s EXCEPT !.highest_price = current_price]
         IN  IF ~s.tsl_activated /\ s.trailing_stop_percentage > 0
                   /\ current_price >= s.tsl_activation_price
             THEN [h EXCEPT !.trailing_stop_price =
                                PctDown(current_price, s.trailing_stop_percentage),
                            !.tsl_activated = TRUE]
             ELSE h
    ELSE s

UpdatePriceTracking(s, current_price) ==
    IF current_price > s.highest_price
    THEN LET h == [s EXCEPT !.highest_price = current_price]
         IN  IF ~s.tsl_activated /\ s.trailing_stop_percentage > 0
             THEN IF current_price >= s.tsl_activation_price
                  THEN [h EXCEPT !.trailing_stop_price =
                                     PctDown(current_price, s.trailing_stop_percentage),
                                 !.tsl_activated = TRUE]
                  ELSE h
             ELSE IF s.tsl_activated /\ s.trailing_stop_percentage > 0
             THEN LET new_trailing_stop ==
                          PctDown(current_price, s.trailing_stop_percentage)
                  IN  IF s.trailing_stop_price = NoPrice
                         \/ new_trailing_stop > s.trailing_stop_price
                      THEN [h EXCEPT !.trailing_stop_price = new_trailing_stop]
                      ELSE h
             ELSE h
    ELSE s

\* _should_sell on one strategy dict
ShouldSell(s, current_price) ==
    \/ current_price <= s.stop_loss_price
    \/ s.tsl_activated /\ s.trailing_stop_price # NoPrice
          /\ current_price <= s.trailing_stop_price
    \/ ~s.tp_executed /\ current_price >= s.take_profit_price

\* f"TAKE_PROFIT_PARTIAL_{tp_sell_percentage}PCT"
TakeProfitPartial(pct) == "TAKE_PROFIT_PARTIAL_" \o ToString(pct) \o "PCT"

\* reason.startswith("TAKE_PROFIT"), over the reasons the program produces
StartsWithTakeProfit(reason) ==
    \/ reason = "TAKE_PROFIT"
    \/ \E pct \in 0 .. 99 : reason = TakeProfitPartial(pct)

\* _get_sell_reason on one strategy dict
GetSellReasonSwapped(s, current_price) ==
    IF s.tsl_activated /\ s.trailing_stop_price # NoPrice
          /\ current_price <= s.trailing_stop_price
    THEN "TRAILING_STOP"
    ELSE IF current_price <= s.stop_loss_price
    THEN "STOP_LOSS"
    ELSE IF current_price >= s.take_profit_price
    THEN IF s.tp_sell_percentage < 100
         THEN TakeProfitPartial(s.tp_sell_percentage)
         ELSE "TAKE_PROFIT"
    ELSE "UNKNOWN"

GetSellReason(s, current_price) ==
    IF current_price <= s.stop_loss_price
    THEN "STOP_LOSS"
    ELSE IF s.tsl_activated /\ s.trailing_stop_price # NoPrice
               /\ current_price <= s.trailing_stop_price
    THEN "TRAILING_STOP"
    ELSE IF current_price >= s.take_profit_price
    THEN IF s.tp_sell_percentage < 100
         THEN TakeProfitPartial(s.tp_sell_percentage)
         ELSE "TAKE_PROFIT"
    ELSE "UNKNOWN"

\* _execute_sell: is_partial_sell
IsPartialSell(s, reason) ==
    StartsWithTakeProfit(reason) /\ ~s.tp_executed /\ s.tp_sell_percentage < 100

\* _execute_sell: sell_quantity
SellQuantityWhole(s, reason) == s.quantity

SellQuantityPercent(s, reason) ==
    IF s.tp_sell_percentage < 100
    THEN (s.quantity * s.tp_sell_percentage) \div 100
    ELSE s.quantity

SellQuantity(s, reason) ==
    IF IsPartialSell(s, reason)
    THEN (s.quantity * s.tp_sell_percentage) \div 100
    ELSE s.quantity

\* _handle_sell_completion: the update of the strategy dict
HandleSellCompletionAlwaysSubtract(s, is_partial_sell, executed_qty) ==
    IF is_partial_sell
    THEN [s EXCEPT !.tp_executed = TRUE,
                   !.quantity = @ - executed_qty,
                   !.status = "PARTIAL_EXECUTED"]
    ELSE [s EXCEPT !.status = "EXECUTED", !.executed = TRUE]

HandleSellCompletionKeepsPartial(s, is_partial_sell, executed_qty) ==
    IF is_partial_sell
    THEN IF s.quantity > executed_qty
         THEN [s EXCEPT !.tp_executed = TRUE,
                        !.quantity = @ - executed_qty,
                        !.status = "PARTIAL_EXECUTED"]
         ELSE [s EXCEPT !.tp_executed = TRUE,
                        !.quantity = 0,
                        !.status = "PARTIAL_EXECUTED"]
    ELSE [s EXCEPT !.status = "EXECUTED", !.executed = TRUE]

HandleSellCompletionNeedsWholeFill(s, is_partial_sell, executed_qty) ==
    IF is_partial_sell
    THEN IF s.quantity > executed_qty
         THEN [s EXCEPT !.tp_executed = TRUE,
                        !.quantity = @ - executed_qty,
                        !.status = "PARTIAL_EXECUTED"]
         ELSE [s EXCEPT !.tp_executed = TRUE,
                        !.status = "EXECUTED",
                        !.executed = TRUE]
    ELSE IF s.quantity > executed_qty
         THEN [s EXCEPT !.quantity = @ - executed_qty,
                        !.status = "PARTIAL_EXECUTED"]
         ELSE [s EXCEPT !.status = "EXECUTED", !.executed = TRUE]

HandleSellCompletion(s, is_partial_sell, executed_qty) ==
    IF is_partial_sell
    THEN IF s.quantity > executed_qty
         THEN [s EXCEPT !.tp_executed = TRUE,
                        !.quantity = @ - executed_qty,
                        !.status = "PARTIAL_EXECUTED"]
         ELSE [s EXCEPT !.tp_executed = TRUE,
                        !.status = "EXECUTED",
                        !.executed = TRUE]
    ELSE [s EXCEPT !.status = "EXECUTED", !.executed = TRUE]

----------------------------------------------------------------------------
(* State *)

\* the quantities the exchange may report as executed for an order placed
\* for quantity q: nothing, all of it, more than was asked
ExecutedChoices(q) == {0, q, 2 * q}

\* what a poll of get_order_status returns for an order that is not filled
\* yet; "NONE" is a failed request
PendingResults == {"NONE", "NEW"}

\* the Python type of the orderId values in the exchange's replies
OrderIdTypes == {"str", "int"}

Init ==
    /\ now = 0
    /\ config \in Configs
    /\ strategies = <<>>
    /\ active_strategies = EmptyMap
    /\ monitoring_tasks = EmptyMap
    /\ tasks = <<>>
    /\ orders = <<>>

\* asyncio.create_task(self._monitor_price(strategy_id)): a task that has
\* not run yet
NewTask(strategy_id) ==
    [strategy_id |-> strategy_id,
     pc |-> "start",
     strategy |-> 0,            \* local `strategy` of _monitor_price
     current_price |-> NoPrice, \* local `current_price`
     reason |-> "",             \* _execute_sell in flight: its arguments
     is_partial_sell |-> FALSE, \*   and locals
     sell_quantity |-> 0,
     sell_strategy |-> 0,       \* local `strategy` of _execute_sell
     notification |-> <<>>]     \* the observer call _execute_sell awaits

\* the locals of a task that has left _execute_sell, or has ended, are dead
Idle(t, pc) ==
    [t EXCEPT !.pc = pc, !.current_price = NoPrice, !.reason = "",
              !.is_partial_sell = FALSE, !.sell_quantity = 0, !.sell_strategy = 0,
              !.notification = <<>>]

Ended(t, pc) == [Idle(t, pc) EXCEPT !.strategy = 0]

\* task.cancel(): CancelledError is raised in the task at the await it is
\* suspended in, and _monitor_price re-raises it
Cancel(ts, k) ==
    IF ts[k].pc \in {"done", "cancelled"}
    THEN ts
    ELSE [ts EXCEPT ![k] = Ended(@, "cancelled")]

\* the removal of a strategy: cancel its monitoring task, delete the entries
CancelMonitoring(ts, strategy_id) ==
    IF strategy_id \in DOMAIN monitoring_tasks
    THEN Cancel(ts, monitoring_tasks[strategy_id])
    ELSE ts

----------------------------------------------------------------------------
(* SellStrategyManager: operations *)

\* add_strategy(symbol, buy_price, quantity) with the Config defaults: what
\* it does to the manager
StrategyAdded(symbol, buy_price, quantity) ==
    LET strategy_id == StrategyId(symbol, now)
        k == Len(strategies) + 1
    IN  /\ strategies' = Append(strategies,
               NewStrategy(symbol, buy_price, quantity, config, now))
        /\ active_strategies' = Put(active_strategies, strategy_id, k)
        /\ tasks' = Append(tasks, NewTask(strategy_id))
        /\ monitoring_tasks' = Put(monitoring_tasks, strategy_id, k)

\* add_strategy(symbol, buy_price, quantity) called on its own
AddStrategy(symbol, buy_price, quantity) ==
    /\ Len(strategies) < MaxStrategies
    /\ StrategyAdded(symbol, buy_price, quantity)
    /\ UNCHANGED <<now, config, orders>>

\* remove_strategy(strategy_id) called in the state st of active_strategies,
\* monitoring_tasks and the tasks: what it returns and the state it leaves
RemovedKeepsEntry(st, strategy_id) ==
    IF strategy_id \in DOMAIN st.active_strategies
    THEN [result |-> TRUE,
          tasks |-> IF strategy_id \in DOMAIN st.monitoring_tasks
                    THEN Cancel(st.tasks, st.monitoring_tasks[strategy_id])
                    ELSE st.tasks,
          monitoring_tasks |-> Del(st.monitoring_tasks, strategy_id),
          active_strategies |-> st.active_strategies]
    ELSE [st EXCEPT !.result = FALSE]

Removed(st, strategy_id) ==
    IF strategy_id \in DOMAIN st.active_strategies
    THEN [result |-> TRUE,
          tasks |-> IF strategy_id \in DOMAIN st.monitoring_tasks
                    THEN Cancel(st.tasks, st.monitoring_tasks[strategy_id])
                    ELSE st.tasks,
          monitoring_tasks |-> Del(st.monitoring_tasks, strategy_id),
          active_strategies |-> Del(st.active_strategies, strategy_id)]
    ELSE \* "Strategy not found": returns False
         [st EXCEPT !.result = FALSE]

\* the state remove_strategy works on
ManagerState ==
    [result |-> FALSE, tasks |-> tasks, monitoring_tasks |-> monitoring_tasks,
     active_strategies |-> active_strategies]

\* remove_strategy(strategy_id)
RemoveStrategy(strategy_id) ==
    /\ LET r == Removed(ManagerState, strategy_id)
       IN  /\ tasks' = r.tasks
           /\ monitoring_tasks' = r.monitoring_tasks
           /\ active_strategies' = r.active_strategies
    /\ UNCHANGED <<now, config, strategies, orders>>

\* time passes
Tick ==
    /\ now < MaxClock
    /\ now' = now + 1
    /\ UNCHANGED <<config, strategies, active_strategies,
                   monitoring_tasks, tasks, orders>>

\* _execute_sell up to its await of execute_market_sell, for the strategy
\* dict s at heap index h
ExecuteSellBegin(t, s, h, reason) ==
    [t EXCEPT !.pc = "sell",
              !.reason = reason,
              !.is_partial_sell = IsPartialSell(s, reason),
              !.sell_quantity = SellQuantity(s, reason),
              !.sell_strategy = h]

\* _check_time_based_selling: whether the time-based exit is due
TimeBasedDueAtZero(s) == now - s.start_time >= s.time_based_minutes

TimeBasedDue(s) ==
    s.time_based_minutes > 0 /\ now - s.start_time >= s.time_based_minutes

\* _monitor_price from the head of its while loop to the next await
LoopHead(t) ==
    IF t.strategy_id \in DOMAIN active_strategies
          /\ ~strategies[t.strategy].executed
    THEN LET h == active_strategies[t.strategy_id]
         IN  IF TimeBasedDue(strategies[h])
             THEN ExecuteSellBegin(t, strategies[h], h, "TIME_BASED")
             ELSE [t EXCEPT !.pc = "price"]
    ELSE Ended(t, "done")

\* the task of _monitor_price runs for the first time
MonitorStart(k) ==
    /\ tasks[k].pc = "start"
    /\ LET strategy_id == tasks[k].strategy_id
       IN  IF strategy_id \in DOMAIN active_strategies
           THEN tasks' = [tasks EXCEPT ![k] =
                   LoopHead([@ EXCEPT !.strategy = active_strategies[strategy_id]])]
           ELSE tasks' = [tasks EXCEPT ![k] = Ended(@, "done")]
    /\ UNCHANGED <<now, config, strategies, active_strategies,
                   monitoring_tasks, orders>>

\* asyncio.sleep returns: next iteration of the loop
MonitorWake(k) ==
    /\ tasks[k].pc = "sleep"
    /\ tasks' = [tasks EXCEPT ![k] = LoopHead(@)]
    /\ UNCHANGED <<now, config, strategies, active_strategies,
                   monitoring_tasks, orders>>

\* _get_current_price returns price (NoPrice: no ticker)
MonitorPrice(k, price) ==
    /\ tasks[k].pc = "price"
    /\ LET t == tasks[k]
           strategy_id == t.strategy_id
       IN  IF price = NoPrice
           THEN /\ tasks' = [tasks EXCEPT ![k].pc = "sleep"]
                /\ UNCHANGED strategies
           ELSE IF strategy_id \notin DOMAIN active_strategies
           THEN \* KeyError in _update_price_tracking, caught at the end
                /\ tasks' = [tasks EXCEPT ![k] = Ended(@, "done")]
                /\ UNCHANGED strategies
           ELSE LET h == active_strategies[strategy_id]
                    s == UpdatePriceTracking(strategies[h], price)
                    t1 == [t EXCEPT !.strategy = h, !.current_price = price]
                IN  /\ strategies' = [strategies EXCEPT ![h] = s]
                    /\ tasks' = [tasks EXCEPT ![k] =
                           IF ShouldSell(s, price)
                           THEN ExecuteSellBegin(t1, s, h, GetSellReason(s, price))
                           ELSE Idle(t1, "sleep")]
    /\ UNCHANGED <<now, config, active_strategies,
                   monitoring_tasks, orders>>

\* execute_market_sell has placed an order of quantity for symbol: it tracks
\* the order in active_orders and starts its monitor.  replaces is the order
\* whose monitor placed it (0: none)
TrackedOrder(symbol, quantity, replaces) ==
    [symbol |-> symbol,
     side |-> "SELL",
     status |-> "NEW",
     filled |-> FALSE,
     pc |-> "poll",             \* the order's _monitor_order_status task
     retry_count |-> 0,         \* local `retry_count` of that task
     callbacks |-> <<>>,        \* order_callbacks[str(order_id)]
     strategy |-> 0,            \* local `strategy` of _handle_sell_completion
     requested |-> quantity,    \* quantity given to execute_market_sell
     sold_for |-> 0,            \* history: the strategy dict sold for
     fired |-> 0,               \* history: invocations of sell_callback
     invoked |-> <<>>,          \* history: the callbacks invoked, in order
     replaces |-> replaces]     \* history: the order this one was placed for

\* execute_market_sell tracks the order and starts its monitor;
\* _execute_sell registers sell_callback for it
NewOrder(t) ==
    [TrackedOrder(t.strategy_id[1], t.sell_quantity, 0) EXCEPT
        !.callbacks = <<[strategy_id |-> t.strategy_id, reason |-> t.reason,
                         is_partial_sell |-> t.is_partial_sell]>>,
        !.sold_for = t.sell_strategy]

\* _monitor_price after _execute_sell has returned
AfterSell(t, result) ==
    IF t.reason = "TIME_BASED" \/ ~result
          \/ t.strategy_id \notin DOMAIN active_strategies
    THEN Ended(t, "done")
    ELSE LET h == active_strategies[t.strategy_id]
         IN  IF strategies[h].executed
             THEN Ended(t, "done")
             ELSE [Idle(t, "sleep") EXCEPT !.strategy = h]

\* f"{reason}_FAILED"
Failed(reason) == reason \o "_FAILED"

\* the reason _handle_sell_completion passes to the sell observers
CompletionReason(reason, is_partial_sell, executed_qty) ==
    IF is_partial_sell
    THEN reason \o " (" \o ToString(executed_qty) \o " sold)"
    ELSE reason

\* the arguments of the observer call on the failure path of _execute_sell
FailureNotificationNoPrice(t) ==
    LET s == strategies[t.sell_strategy]
    IN  [symbol |-> s.symbol, buy_price |-> s.buy_price,
         sell_price |-> NoPrice, quantity |-> s.quantity,
         reason |-> Failed(t.reason)]

FailureNotification(t) ==
    LET s == strategies[t.sell_strategy]
    IN  [symbol |-> s.symbol, buy_price |-> s.buy_price,
         sell_price |-> s.buy_price, quantity |-> s.quantity,
         reason |-> Failed(t.reason)]

\* execute_market_sell returns: an order was placed, or every attempt failed
\* and _execute_sell awaits the first sell observer; what the task will do
\* once the observers have returned (return False, leave the loop) depends
\* on none of its locals
MonitorSellReturns(k, placed) ==
    /\ tasks[k].pc = "sell"
    /\ placed => Len(orders) < MaxOrders
    /\ orders' = IF placed THEN Append(orders, NewOrder(tasks[k])) ELSE orders
    /\ tasks' = [tasks EXCEPT ![k] =
           IF placed \/ SellCallbacks = 0
           THEN AfterSell(@, placed)
           ELSE [Ended(@, "failed") EXCEPT
                    !.notification = <<FailureNotification(tasks[k])>>]]
    /\ UNCHANGED <<now, config, strategies, active_strategies,
                   monitoring_tasks>>

\* the sell observers of the failure path have returned: _execute_sell
\* returns False
MonitorFailureNotified(k) ==
    /\ tasks[k].pc = "failed"
    /\ tasks' = [tasks EXCEPT ![k] = AfterSell(@, FALSE)]
    /\ UNCHANGED <<now, config, strategies, active_strategies,
                   monitoring_tasks, orders>>

----------------------------------------------------------------------------
(* OrderExecutor: the monitor task of one order *)

\* one poll of get_order_status in _monitor_order_status for an order that
\* is not filled yet: the monitor records the status and polls again
OrderPoll(o, result) ==
    /\ orders[o].pc = "poll"
    /\ orders' = [orders EXCEPT ![o].status =
                      IF result = "NONE" THEN @ ELSE result]
    /\ UNCHANGED <<now, config, strategies, active_strategies,
                   monitoring_tasks, tasks>>

\* `str_order_id in self.order_callbacks` on the detailed path, and
\* `order_id in self.order_callbacks` on the fallback path, where the key is
\* the exchange's raw order id while register_order_callback stored str(id)
CallbacksFound(order, detailed, id_type) ==
    /\ order.callbacks # <<>>
    /\ detailed \/ id_type = "str"

\* whether the monitor invokes the order's callbacks: always on the detailed
\* path, on the fallback path only for a positive executed quantity
FiresCallbacks(order, detailed, executed_qty, id_type) ==
    /\ detailed \/ executed_qty > 0
    /\ CallbacksFound(order, detailed, id_type)

\* _handle_sell_completion, the clean-up after the observers were awaited:
\* the strategy dict at heap index h is removed if its executed flag is set
CleanupTasks(ts, strategy_id, h) ==
    IF strategies'[h].executed THEN CancelMonitoring(ts, strategy_id) ELSE ts

CleanupMonitoringTasks(strategy_id, h) ==
    IF strategies'[h].executed /\ strategy_id \in DOMAIN monitoring_tasks
    THEN Del(monitoring_tasks, strategy_id)
    ELSE monitoring_tasks

CleanupActive(strategy_id, h) ==
    IF strategies'[h].executed /\ strategy_id \in DOMAIN active_strategies
    THEN Del(active_strategies, strategy_id)
    ELSE active_strategies

\* the monitor after the last callback of the order has returned: it deletes
\* the order's entry of order_callbacks and returns True
AfterCallbacksKept(order) ==
    [order EXCEPT !.pc = "done", !.strategy = 0]

AfterCallbacks(order) ==
    [order EXCEPT !.pc = "done", !.callbacks = <<>>, !.strategy = 0]

\* a poll of get_order_status returns FILLED.  get_filled_order_details then
\* returns (detailed), or fails and the monitor falls back to the status it
\* polled; the callbacks of the order are invoked up to the first await that
\* suspends: sell_callback runs _handle_sell_completion up to its await of
\* the first observer.  (Between the poll and the details the monitor is
\* suspended once more, holding nothing but the polled status; no other task
\* reads or writes what it holds, so the two segments are taken as one.)
OrderFilled(o, detailed, executed_qty, id_type) ==
    /\ orders[o].pc = "poll"
    /\ LET order == orders[o]
           tracked == [order EXCEPT !.status = "FILLED", !.filled = TRUE]
       IN  IF ~FiresCallbacks(order, detailed, executed_qty, id_type)
           THEN /\ orders' = [orders EXCEPT ![o] = [tracked EXCEPT !.pc = "done"]]
                /\ UNCHANGED <<strategies, active_strategies, monitoring_tasks, tasks>>
           ELSE LET cb == order.callbacks[1]
                IN  IF cb.strategy_id \notin DOMAIN active_strategies
                    THEN \* "Strategy not found for sell completion"
                         /\ orders' = [orders EXCEPT ![o] =
                                AfterCallbacks([tracked EXCEPT !.fired = @ + 1])]
                         /\ UNCHANGED <<strategies, active_strategies,
                                        monitoring_tasks, tasks>>
                    ELSE LET h == active_strategies[cb.strategy_id]
                         IN  /\ strategies' = [strategies EXCEPT ![h] =
                                    HandleSellCompletion(@, cb.is_partial_sell, executed_qty)]
                             /\ IF SellCallbacks > 0
                                THEN /\ orders' = [orders EXCEPT ![o] =
                                            [tracked EXCEPT !.pc = "callback",
                                                            !.fired = @ + 1,
                                                            !.strategy = h]]
                                     /\ UNCHANGED <<active_strategies,
                                                    monitoring_tasks, tasks>>
                                ELSE /\ orders' = [orders EXCEPT ![o] =
                                            AfterCallbacks([tracked EXCEPT !.fired = @ + 1])]
                                     /\ tasks' = CleanupTasks(tasks, cb.strategy_id, h)
                                     /\ monitoring_tasks' =
                                            CleanupMonitoringTasks(cb.strategy_id, h)
                                     /\ active_strategies' =
                                            CleanupActive(cb.strategy_id, h)
    /\ UNCHANGED <<now, config>>

\* the observers of _handle_sell_completion have been awaited, each having
\* returned or raised an exception that the `except Exception` around its
\* call logs: the handler cleans up and returns, and the monitor deletes the
\* order's callback list
OrderCallbackReturns(o) ==
    /\ orders[o].pc = "callback"
    /\ LET order == orders[o]
           cb == order.callbacks[1]
       IN  /\ UNCHANGED strategies
           /\ tasks' = CleanupTasks(tasks, cb.strategy_id, order.strategy)
           /\ monitoring_tasks' = CleanupMonitoringTasks(cb.strategy_id, order.strategy)
           /\ active_strategies' = CleanupActive(cb.strategy_id, order.strategy)
           /\ orders' = [orders EXCEPT ![o] = AfterCallbacks(@)]
    /\ UNCHANGED <<now, config>>

----------------------------------------------------------------------------
(* The system *)

Next ==
    \/ \E symbol \in Symbols, buy_price \in BuyPrices, quantity \in Quantities :
          AddStrategy(symbol, buy_price, quantity)
    \/ \E strategy_id \in StrategyIds : RemoveStrategy(strategy_id)
    \/ Tick
    \/ \E k \in DOMAIN tasks : MonitorStart(k)
    \/ \E k \in DOMAIN tasks : MonitorWake(k)
    \/ \E k \in DOMAIN tasks, price \in Prices \cup {NoPrice} : MonitorPrice(k, price)
    \/ \E k \in DOMAIN tasks, placed \in BOOLEAN : MonitorSellReturns(k, placed)
    \/ \E k \in DOMAIN tasks : MonitorFailureNotified(k)
    \/ \E o \in DOMAIN orders, result \in PendingResults : OrderPoll(o, result)
    \/ \E o \in DOMAIN orders, detailed \in BOOLEAN :
          \E executed_qty \in ExecutedChoices(orders[o].requested),
             id_type \in OrderIdTypes :
              OrderFilled(o, detailed, executed_qty, id_type)
    \/ \E o \in DOMAIN orders : OrderCallbackReturns(o)

Spec == Init /\ [][Next]_vars

----------------------------------------------------------------------------
(* OrderExecutor: orders that end REJECTED, EXPIRED or CANCELED *)

FailureStatuses == {"REJECTED", "EXPIRED", "CANCELED"}

\* the orders placed by a direct call of execute_market_sell
LogicalOrders == {o \in DOMAIN orders : orders[o].replaces = 0}

\* execute_market_sell(symbol, quantity) called directly (the sell command of
\* the bot) and accepted by the exchange
ExecuteMarketSell(symbol, quantity) ==
    /\ Len(orders) < MaxChain
    /\ Cardinality(LogicalOrders) < MaxLogicalOrders
    /\ orders' = Append(orders, TrackedOrder(symbol, quantity, 0))
    /\ UNCHANGED <<now, config, strategies, active_strategies,
                   monitoring_tasks, tasks>>

\* a poll of get_order_status returns REJECTED, EXPIRED or CANCELED (a status
\* the exchange never leaves again).  With budget left the monitor counts a
\* retry and awaits execute_market_sell for the tracked quantity; if that
\* places a new order (placed) the monitor returns True and the new order
\* has a monitor of its own, otherwise it sleeps and polls again.  With no
\* budget left it returns False.
OrderFailed(o, status, placed) ==
    /\ orders[o].pc = "poll"
    /\ status \in FailureStatuses
    /\ orders[o].status \in FailureStatuses => status = orders[o].status
    /\ placed => Len(orders) < MaxChain
    /\ LET order == [orders[o] EXCEPT !.status = status]
       IN  IF order.retry_count < MaxRetryAttempts
           THEN IF placed
                THEN orders' = Append(
                         [orders EXCEPT ![o] =
                             [order EXCEPT !.pc = "done", !.retry_count = 0]],
                         TrackedOrder(order.symbol, order.requested, o))
                ELSE orders' = [orders EXCEPT ![o] =
                         [order EXCEPT !.retry_count = @ + 1]]
           ELSE orders' = [orders EXCEPT ![o] =
                    [order EXCEPT !.pc = "done", !.retry_count = 0]]
    /\ UNCHANGED <<now, config, strategies, active_strategies,
                   monitoring_tasks, tasks>>

\* the monitor finds that it has polled for more than max_monitoring_time
OrderTimeoutResubmits(o) ==
    /\ orders[o].pc = "poll"
    /\ Len(orders) < MaxChain
    /\ orders' = Append(
           [orders EXCEPT ![o] =
               [@ EXCEPT !.status = "TIMEOUT", !.pc = "done", !.retry_count = 0]],
           TrackedOrder(orders[o].symbol, orders[o].requested, o))
    /\ UNCHANGED <<now, config, strategies, active_strategies,
                   monitoring_tasks, tasks>>

OrderTimeout(o) ==
    /\ orders[o].pc = "poll"
    /\ orders' = [orders EXCEPT ![o] =
           [@ EXCEPT !.status = "TIMEOUT", !.pc = "done", !.retry_count = 0]]
    /\ UNCHANGED <<now, config, strategies, active_strategies,
                   monitoring_tasks, tasks>>

\* the executor on its own: direct sells and the monitors of their orders
RetryNext ==
    \/ \E symbol \in Symbols, quantity \in Quantities :
          ExecuteMarketSell(symbol, quantity)
    \/ \E o \in DOMAIN orders, result \in PendingResults :
          orders[o].status \notin FailureStatuses /\ OrderPoll(o, result)
    \/ \E o \in DOMAIN orders, detailed \in BOOLEAN :
          \E executed_qty \in ExecutedChoices(orders[o].requested),
             id_type \in OrderIdTypes :
              /\ orders[o].status \notin FailureStatuses
              /\ OrderFilled(o, detailed, executed_qty, id_type)
    \/ \E o \in DOMAIN orders, status \in FailureStatuses, placed \in BOOLEAN :
          OrderFailed(o, status, placed)
    \/ \E o \in DOMAIN orders : OrderTimeout(o)

RetrySpec == Init /\ [][RetryNext]_vars

----------------------------------------------------------------------------
(* OrderExecutor: buy orders that are filled create strategies *)

\* the strategy dicts that are values of active_strategies
ActiveDicts == {active_strategies[id] : id \in DOMAIN active_strategies}

\* what the exchange reports of a filled buy order, as (executedQty,
\* cummulativeQuoteQty): nothing executed, or 80 units for 8000.00
BuyFills == {<<0, 0>>, <<10 * QtyUnit, 10 * QtyUnit * 10000>>}

\* get_filled_order_details: the average price of a fill
AveragePrice(executed_qty, quote_qty) ==
    IF executed_qty > 0 THEN quote_qty \div executed_qty ELSE 0

\* has_strategy_for_symbol(symbol)
HasStrategyForSymbolNever(symbol) == FALSE

HasStrategyForSymbol(symbol) ==
    \E h \in ActiveDicts :
        /\ strategies[h].symbol = symbol
        /\ strategies[h].status = "ACTIVE"
        /\ ~strategies[h].executed

----------------------------------------------------------------------------
(* OrderExecutor: completion callbacks registered by callers *)

\* the callbacks callers register: "a" returns, "b" raises an exception
Callbacks == {[name |-> "a", raises |-> FALSE], [name |-> "b", raises |-> TRUE]}

Names(callbacks) == [i \in DOMAIN callbacks |-> callbacks[i].name]

\* register_order_callback(order_id, callback) for the order o
RegisterOrderCallback(o, callback) ==
    /\ Len(orders[o].callbacks) < MaxCallbacks
    /\ orders' = [orders EXCEPT ![o].callbacks = Append(@, callback)]
    /\ UNCHANGED <<now, config, strategies, active_strategies,
                   monitoring_tasks, tasks>>

\* the monitor awaits the next callback of the order's list
InvokeNext(order) ==
    [order EXCEPT !.pc = "callback",
                  !.invoked = Append(@, order.callbacks[Len(@) + 1].name)]

\* a poll of get_order_status returns FILLED for an order whose callbacks
\* are callbacks of callers: as OrderFilled, up to the await of the first one
OrderFilledInvokes(o, detailed, executed_qty, id_type) ==
    /\ orders[o].pc = "poll"
    /\ LET order == orders[o]
           tracked == [order EXCEPT !.status = "FILLED", !.filled = TRUE]
       IN  orders' = [orders EXCEPT ![o] =
               IF FiresCallbacks(order, detailed, executed_qty, id_type)
               THEN InvokeNext(tracked)
               ELSE [tracked EXCEPT !.pc = "done"]]
    /\ UNCHANGED <<now, config, strategies, active_strategies,
                   monitoring_tasks, tasks>>

\* the monitor after the callback it awaited has returned, or has raised an
\* exception (raised), which the `except Exception` around the call logs:
\* the next callback of the list, or the end of the loop
AfterCallbackUncaught(order, raised) ==
    IF raised
    THEN \* the handler of the monitor's loop body: sleep, poll again
         [order EXCEPT !.pc = "poll"]
    ELSE IF Len(order.invoked) < Len(order.callbacks)
    THEN InvokeNext(order)
    ELSE AfterCallbacks(order)

AfterCallback(order, raised) ==
    IF Len(order.invoked) < Len(order.callbacks)
    THEN InvokeNext(order)
    ELSE AfterCallbacks(order)

\* the callback the monitor of o awaits returns or raises
CallbackEnds(o) ==
    /\ orders[o].pc = "callback"
    /\ orders[o].invoked # <<>>
    /\ orders' = [orders EXCEPT ![o] =
           AfterCallback(@, @.callbacks[Len(@.invoked)].raises)]
    /\ UNCHANGED <<now, config, strategies, active_strategies,
                   monitoring_tasks, tasks>>

\* the executor with callers that place orders and register callbacks
FanoutNext ==
    \/ \E symbol \in Symbols, quantity \in Quantities :
          ExecuteMarketSell(symbol, quantity)
    \/ \E o \in DOMAIN orders, callback \in Callbacks :
          RegisterOrderCallback(o, callback)
    \/ \E o \in DOMAIN orders, result \in PendingResults : OrderPoll(o, result)
    \/ \E o \in DOMAIN orders, detailed \in BOOLEAN :
          \E executed_qty \in ExecutedChoices(orders[o].requested),
             id_type \in OrderIdTypes :
              OrderFilledInvokes(o, detailed, executed_qty, id_type)
    \/ \E o \in DOMAIN orders : CallbackEnds(o)
    \/ \E o \in DOMAIN orders : OrderTimeout(o)

FanoutSpec == Init /\ [][FanoutNext]_vars

----------------------------------------------------------------------------
(* OrderExecutor: the monitor of a buy order, with the manager *)

\* execute_market_buy(symbol, usdt_amount) accepted by the exchange: it
\* tracks the order, with the executed quantity of the reply (none yet), and
\* starts its monitor
BuyOrderPlaced(symbol) ==
    /\ Len(orders) < MaxOrders
    /\ orders' = Append(orders, [TrackedOrder(symbol, 0, 0) EXCEPT !.side = "BUY"])
    /\ UNCHANGED <<now, config, strategies, active_strategies,
                   monitoring_tasks, tasks>>

\* a poll of get_order_status returns FILLED for a buy order.  With the
\* details of the fill (detailed) the monitor adds a strategy at the average
\* price for the executed quantity unless the symbol has one; then, on
\* either path, it invokes the callbacks of the order as OrderFilledInvokes
\* does.
BuyFilled(o, detailed, fill, id_type) ==
    /\ orders[o].pc = "poll"
    /\ orders[o].side = "BUY"
    /\ LET order == orders[o]
           tracked == [order EXCEPT !.status = "FILLED", !.filled = TRUE]
       IN  /\ IF detailed /\ ~HasStrategyForSymbol(order.symbol)
              THEN /\ Len(strategies) < MaxStrategies
                   /\ StrategyAdded(order.symbol,
                                    AveragePrice(fill[1], fill[2]), fill[1])
              ELSE UNCHANGED <<strategies, active_strategies,
                               monitoring_tasks, tasks>>
           /\ orders' = [orders EXCEPT ![o] =
                  IF FiresCallbacks(order, detailed, fill[1], id_type)
                  THEN InvokeNext(tracked)
                  ELSE [tracked EXCEPT !.pc = "done"]]
    /\ UNCHANGED <<now, config>>

\* the manager with strategies created by filled buy orders, and the
\* callers' callbacks of buy and sell orders
CreateNext ==
    \/ \E symbol \in Symbols : BuyOrderPlaced(symbol)
    \/ \E symbol \in Symbols, quantity \in Quantities :
          ExecuteMarketSell(symbol, quantity)
    \/ \E o \in DOMAIN orders, callback \in Callbacks :
          /\ Len(orders[o].callbacks) < MaxBuyCallbacks
          /\ RegisterOrderCallback(o, callback)
    \/ \E o \in DOMAIN orders, detailed \in BOOLEAN :
          \E fill \in BuyFills, id_type \in OrderIdTypes :
              BuyFilled(o, detailed, fill, id_type)
    \/ \E o \in DOMAIN orders, detailed \in BOOLEAN :
          \E executed_qty \in ExecutedChoices(orders[o].requested),
             id_type \in OrderIdTypes :
              /\ orders[o].side = "SELL"
              /\ OrderFilledInvokes(o, detailed, executed_qty, id_type)
    \/ \E o \in DOMAIN orders : CallbackEnds(o)
    \/ \E strategy_id \in StrategyIds : RemoveStrategy(strategy_id)
    \/ Tick
    \/ \E k \in DOMAIN tasks : MonitorStart(k)
    \/ \E k \in DOMAIN tasks : MonitorWake(k)
    \/ \E k \in DOMAIN tasks, price \in Prices \cup {NoPrice} : MonitorPrice(k, price)

CreateSpec == Init /\ [][CreateNext]_vars

----------------------------------------------------------------------------
(* OrderExecutor: the placement of buy and sell orders.  Amounts of USDT are
   counted in units of 0.00001 USDT. *)

\* quote amounts asked of execute_market_buy: 0.3, 1.0, 1.23456 and 2.5 USDT
UsdtAmounts == {30000, 100000, 123456, 250000}

\* round(quantity, 4) for a quantity that is not halfway between two
\* multiples of 0.0001 (a tie is decided by the binary value of the float)
Round4Truncating(quantity) == quantity - (quantity % 10)

Round4(quantity) ==
    LET r == quantity % 10
    IN  IF r < 5 THEN quantity - r ELSE quantity - r + 10

\* create_market_buy_order: the quoteOrderQty it posts for quantity

QuoteOrderQty(quantity) ==
    Round4(IF quantity < MinOrderUsdt THEN MinOrderUsdt ELSE quantity)

\* execute_market_buy: the amount it goes on with
AdjustedAmount(usdt_amount) ==
    IF usdt_amount < MinOrderUsdt THEN MinOrderUsdt ELSE usdt_amount

\* what one attempt of create_market_buy_order can end in: the exchange's
\* reply with an order id, a reply without one, or an exception with the
\* given text
BuyOutcomes ==
    {"order", "no_order_id", "Invalid symbol", "float division by zero",
     "other error"}

\* the texts execute_market_buy takes for a symbol that is not tradable yet
NotYetTradable == {"Invalid symbol", "float division by zero"}

\* what one call of create_market_sell_order can end in: a reply with an
\* order id, None or a reply without one, or an exception
SellOutcomes == {"order", "no_order_id", "error"}

\* a call of execute_market_buy or execute_market_sell in flight
NewCall(op, symbol, amount) ==
    [op |-> op,
     pc |-> "place",
     symbol |-> symbol,
     asked |-> amount,          \* history: the amount the caller passed
     amount |-> IF op = "buy" THEN AdjustedAmount(amount) ELSE amount,
     retry_count |-> 0,         \* `retry_count` (buy), `retries` (sell)
     api_retry_count |-> 0,     \* `retry_count` of create_market_buy_order
     attempts |-> 0,            \* history: calls of create_market_*_order
     posts |-> 0,               \* history: order requests sent
     posted |-> 0,              \* history: the amount of the last request
     placed |-> 0,              \* history: orders the exchange accepted
     outcome |-> "",            \* history: how the last attempt ended
     result |-> "pending"]      \* "order", "None" or "raised"

\* the call returns result; its locals are dead
Returned(t, result) ==
    [t EXCEPT !.pc = "done", !.result = result, !.retry_count = 0,
              !.api_retry_count = 0]

\* execute_market_buy(symbol, usdt_amount) up to its first await
ExecuteMarketBuy(symbol, usdt_amount) ==
    /\ Len(tasks) < MaxCalls
    /\ tasks' = Append(tasks,
           [NewCall("buy", symbol, usdt_amount) EXCEPT !.attempts = 1])
    /\ UNCHANGED <<now, config, strategies, active_strategies,
                   monitoring_tasks, orders>>

\* execute_market_buy after create_market_buy_order raised an exception
\* with the text error
AfterBuyError(t, error) ==
    IF error \in NotYetTradable
    THEN IF t.retry_count < MaxRetryAttempts
         THEN \* sleeps RETRY_DELAY, then calls create_market_buy_order again
              [t EXCEPT !.retry_count = @ + 1, !.attempts = @ + 1,
                        !.api_retry_count = 0]
         ELSE Returned(t, "None")
    ELSE \* `raise`, caught by the outer `except Exception`: returns None
         Returned(t, "None")

\* the order request of create_market_buy_order, called by
\* execute_market_buy, ends in outcome.  An exception is retried by
\* create_market_buy_order itself until its last attempt, which raises it to
\* execute_market_buy.
BuyPostReturns(k, outcome) ==
    /\ tasks[k].op = "buy" /\ tasks[k].pc = "place"
    /\ LET t == [tasks[k] EXCEPT !.outcome = outcome,
                                 !.posts = @ + 1,
                                 !.posted = QuoteOrderQty(tasks[k].amount),
                                 !.placed = IF outcome = "order" THEN @ + 1 ELSE @]
       IN  IF outcome = "order"
           THEN /\ tasks' = [tasks EXCEPT ![k] = Returned(t, "order")]
                /\ orders' = Append(orders,
                       [TrackedOrder(t.symbol, t.posted, 0)
                           EXCEPT !.side = "BUY"])
           ELSE /\ orders' = orders
                /\ tasks' = [tasks EXCEPT ![k] =
                       IF outcome = "no_order_id"
                       THEN Returned(t, "None")
                       ELSE IF t.api_retry_count >= MaxRetryAttempts - 1
                       THEN AfterBuyError(t, outcome)
                       ELSE [t EXCEPT !.api_retry_count = @ + 1]]
    /\ UNCHANGED <<now, config, strategies, active_strategies,
                   monitoring_tasks>>

\* execute_market_sell(symbol, quantity) up to its first await
ExecuteMarketSellBegin(symbol, quantity) ==
    /\ Len(tasks) < MaxCalls
    /\ tasks' = Append(tasks,
           [NewCall("sell", symbol, quantity) EXCEPT !.attempts = 1])
    /\ UNCHANGED <<now, config, strategies, active_strategies,
                   monitoring_tasks, orders>>

\* execute_market_sell after an attempt that gave no order id
AfterFailedSellOneMore(t) ==
    IF t.retry_count + 1 <= SellMaxRetries + 1
    THEN [t EXCEPT !.retry_count = @ + 1, !.attempts = @ + 1]
    ELSE Returned(t, "None")

AfterFailedSell(t) ==
    IF t.retry_count + 1 <= SellMaxRetries
    THEN \* sleeps a second, then calls create_market_sell_order again
         [t EXCEPT !.retry_count = @ + 1, !.attempts = @ + 1]
    ELSE Returned(t, "None")

\* create_market_sell_order, called by execute_market_sell, ends in outcome
SellPostReturns(k, outcome) ==
    /\ tasks[k].op = "sell" /\ tasks[k].pc = "place"
    /\ LET t == [tasks[k] EXCEPT !.outcome = outcome,
                                 !.posts = @ + 1,
                                 !.posted = tasks[k].amount,
                                 !.placed = IF outcome = "order" THEN @ + 1 ELSE @]
       IN  IF outcome = "order"
           THEN /\ tasks' = [tasks EXCEPT ![k] = Returned(t, "order")]
                /\ orders' = Append(orders,
                       TrackedOrder(t.symbol, t.posted, 0))
           ELSE /\ orders' = orders
                /\ tasks' = [tasks EXCEPT ![k] = AfterFailedSell(t)]
    /\ UNCHANGED <<now, config, strategies, active_strategies,
                   monitoring_tasks>>

\* the executor's placement of orders on its own
PlaceNext ==
    \/ \E symbol \in Symbols, usdt_amount \in UsdtAmounts :
          ExecuteMarketBuy(symbol, usdt_amount)
    \/ \E k \in DOMAIN tasks, outcome \in BuyOutcomes : BuyPostReturns(k, outcome)
    \/ \E symbol \in Symbols, quantity \in Quantities :
          ExecuteMarketSellBegin(symbol, quantity)
    \/ \E k \in DOMAIN tasks, outcome \in SellOutcomes : SellPostReturns(k, outcome)

PlaceSpec == Init /\ [][PlaceNext]_vars

----------------------------------------------------------------------------
(* SellStrategyManager: price tracking under further configurations *)

\* Config: those of Configs, the trailing stop activated at +0 % ("0 to
\* always activate"), and the trailing stop disabled (0 %)
TrackConfigs ==
    Configs \cup
    { [take_profit_percentage |-> 20, tp_sell_percentage |-> 100,
       stop_loss_percentage |-> 10, trailing_stop_percentage |-> 5,
       tsl_min_activation_percentage |-> 0, time_based_minutes |-> 0],
      [take_profit_percentage |-> 20, tp_sell_percentage |-> 50,
       stop_loss_percentage |-> 10, trailing_stop_percentage |-> 0,
       tsl_min_activation_percentage |-> 10, time_based_minutes |-> 0] }

\* prices the ticker can report: those of Prices, the buy price (100.00),
\* and 105.00 and 115.00
TrackPrices == Prices \cup {10000, 10500, 11500}

TrackInit ==
    /\ now = 0
    /\ config \in TrackConfigs
    /\ strategies = <<>>
    /\ active_strategies = EmptyMap
    /\ monitoring_tasks = EmptyMap
    /\ tasks = <<>>
    /\ orders = <<>>

\* the manager with sell orders that the exchange accepts or refuses and
\* that stay open
TrackNext ==
    \/ \E symbol \in Symbols, buy_price \in BuyPrices, quantity \in Quantities :
          AddStrategy(symbol, buy_price, quantity)
    \/ Tick
    \/ \E k \in DOMAIN tasks : MonitorStart(k)
    \/ \E k \in DOMAIN tasks : MonitorWake(k)
    \/ \E k \in DOMAIN tasks, price \in TrackPrices \cup {NoPrice} :
          MonitorPrice(k, price)
    \/ \E k \in DOMAIN tasks, placed \in BOOLEAN : MonitorSellReturns(k, placed)
    \/ \E k \in DOMAIN tasks : MonitorFailureNotified(k)

TrackSpec == TrackInit /\ [][TrackNext]_vars

----------------------------------------------------------------------------
(* The sell orders of strategies that end REJECTED, EXPIRED or CANCELED *)

\* the manager and the executor, with the exchange failing orders
ReplaceNext ==
    \/ \E symbol \in Symbols, buy_price \in BuyPrices, quantity \in Quantities :
          /\ Len(strategies) < MaxReplacedStrategies
          /\ AddStrategy(symbol, buy_price, quantity)
    \/ \E k \in DOMAIN tasks : MonitorStart(k)
    \/ \E k \in DOMAIN tasks : MonitorWake(k)
    \/ \E k \in DOMAIN tasks, price \in Prices \cup {NoPrice} : MonitorPrice(k, price)
    \/ \E k \in DOMAIN tasks, placed \in BOOLEAN : MonitorSellReturns(k, placed)
    \/ \E k \in DOMAIN tasks : MonitorFailureNotified(k)
    \/ \E o \in DOMAIN orders, result \in PendingResults :
          orders[o].status \notin FailureStatuses /\ OrderPoll(o, result)
    \/ \E o \in DOMAIN orders, detailed \in BOOLEAN :
          \E executed_qty \in ExecutedChoices(orders[o].requested),
             id_type \in OrderIdTypes :
              /\ orders[o].status \notin FailureStatuses
              /\ OrderFilled(o, detailed, executed_qty, id_type)
    \/ \E o \in DOMAIN orders : OrderCallbackReturns(o)
    \/ \E o \in DOMAIN orders, status \in FailureStatuses, placed \in BOOLEAN :
          /\ placed => Len(orders) < MaxReplaced
          /\ OrderFailed(o, status, placed)

ReplaceSpec == Init /\ [][ReplaceNext]_vars

----------------------------------------------------------------------------
(* Views of the state used by the properties *)

\* the number of replacement orders between the order o and the order of
\* the direct call it descends from
RECURSIVE Replacements(_)
Replacements(o) ==
    IF orders[o].replaces = 0 THEN 0 ELSE 1 + Replacements(orders[o].replaces)

\* the order of the direct call that the order o descends from
RECURSIVE Origin(_)
Origin(o) == IF orders[o].replaces = 0 THEN o ELSE Origin(orders[o].replaces)

\* the sum of the quantities passed to execute_market_sell for the strategy
\* dict h by the first n orders
RECURSIVE Submitted(_, _)
Submitted(h, n) ==
    IF n = 0
    THEN 0
    ELSE Submitted(h, n - 1)
           + (IF orders[n].sold_for = h THEN orders[n].requested ELSE 0)

\* the task k has just taken a price tick and decided to sell
DecidesToSell(k) ==
    k \in DOMAIN tasks /\ tasks[k].pc = "price" /\ tasks'[k].pc = "sell"

\* the order o has just been observed FILLED and its sell_callback has run
\* _handle_sell_completion on a strategy that is in the active set
CompletionBegins(o) ==
    o \in DOMAIN orders /\ orders[o].pc = "poll" /\ orders'[o].pc = "callback"

----------------------------------------------------------------------------
(* Properties *)

\* C1: every strategy in the active set has 0 <= quantity <= original_quantity,
\* whatever quantities the exchange reported as executed.
QuantityWithinBounds ==
    \A h \in ActiveDicts :
        /\ 0 <= strategies[h].quantity
        /\ strategies[h].quantity <= strategies[h].original_quantity

\* C1, its case: a partial sell was completed for a strategy that is still
\* active, and its quantity went down to a positive remainder.
QuantityReduced ==
    \E h \in ActiveDicts :
        /\ strategies[h].status = "PARTIAL_EXECUTED"
        /\ 0 < strategies[h].quantity
        /\ strategies[h].quantity < strategies[h].original_quantity

\* C2: the quantities of the sell orders submitted for one strategy never add
\* up to more than the strategy's original quantity.
NoOversell ==
    \A h \in DOMAIN strategies :
        Submitted(h, Len(orders)) <= strategies[h].original_quantity

\* C3: for every strategy dict and price for which _should_sell is true,
\* _get_sell_reason gives STOP_LOSS if the price is at or below the stop-loss
\* price; otherwise TRAILING_STOP if the trailing stop is activated and the
\* price is at or below its price; otherwise a take-profit tag; never UNKNOWN.
\* No sell the monitoring loop has decided on carries UNKNOWN either.
ExitPrecedence ==
    /\ \A h \in DOMAIN strategies : \A current_price \in Prices :
           LET s == strategies[h]
               reason == GetSellReason(s, current_price)
           IN  ShouldSell(s, current_price) =>
                   /\ reason # "UNKNOWN"
                   /\ IF current_price <= s.stop_loss_price
                      THEN reason = "STOP_LOSS"
                      ELSE IF s.tsl_activated
                                 /\ current_price <= s.trailing_stop_price
                      THEN reason = "TRAILING_STOP"
                      ELSE StartsWithTakeProfit(reason)
    /\ \A k \in DOMAIN tasks : tasks[k].pc = "sell" => tasks[k].reason # "UNKNOWN"

\* C3, its case: the loop decided on a STOP_LOSS sell at a price that is at or
\* below both the stop-loss price and the price of an activated trailing stop.
StopLossBeatsTrailingStop ==
    \E k \in DOMAIN tasks :
        /\ tasks[k].pc = "sell"
        /\ tasks[k].reason = "STOP_LOSS"
        /\ LET s == strategies[tasks[k].sell_strategy]
           IN  /\ s.tsl_activated
               /\ tasks[k].current_price <= s.trailing_stop_price
               /\ tasks[k].current_price <= s.stop_loss_price

\* C4: once a strategy's trailing_stop_price is non-null, no step lowers it or
\* makes it null again.
TrailingStopNeverLowered ==
    [][\A h \in DOMAIN strategies :
           strategies[h].trailing_stop_price # NoPrice =>
               /\ strategies'[h].trailing_stop_price # NoPrice
               /\ strategies'[h].trailing_stop_price
                      >= strategies[h].trailing_stop_price]_vars

\* C4, its case: the trailing stop was activated, and the loop then took a
\* price below the highest price, which left the trailing stop where it was.
PriceFellAfterActivation ==
    \E k \in DOMAIN tasks :
        /\ tasks[k].pc = "sell"
        /\ tasks[k].current_price # NoPrice
        /\ LET s == strategies[tasks[k].sell_strategy]
           IN  /\ s.tsl_activated
               /\ s.trailing_stop_price # NoPrice
               /\ tasks[k].current_price < s.highest_price
               /\ s.trailing_stop_price = PctDown(s.highest_price, s.trailing_stop_percentage)

\* C5: the callbacks of an order are invoked at most once, only after the
\* monitor saw the order FILLED, and the order's callback list is gone once
\* they have returned.
CallbacksAtMostOnce ==
    \A o \in DOMAIN orders :
        /\ orders[o].fired <= 1
        /\ orders[o].fired > 0 => orders[o].status = "FILLED"
        /\ (orders[o].fired > 0 /\ orders[o].pc = "done") => orders[o].callbacks = <<>>

\* C5, its case: the callbacks of a filled order were invoked, have returned,
\* and the monitor has ended.
CallbacksFiredAndRemoved ==
    \E o \in DOMAIN orders :
        /\ orders[o].fired = 1
        /\ orders[o].pc = "done"
        /\ orders[o].status = "FILLED"
        /\ orders[o].callbacks = <<>>

\* C6: when the monitor of an order has seen the order FILLED and has ended,
\* the order's callback has been invoked exactly once.
CallbackInvokedOnFill ==
    \A o \in DOMAIN orders :
        (orders[o].pc = "done" /\ orders[o].status = "FILLED") => orders[o].fired = 1

\* C7: the steps a strategy's status may take.
StatusStep(before, after) ==
    \/ after = before
    \/ before = "ACTIVE" /\ after \in {"PARTIAL_EXECUTED", "EXECUTED"}
    \/ before = "PARTIAL_EXECUTED" /\ after = "EXECUTED"

\* C7: a strategy's status only moves ACTIVE -> PARTIAL_EXECUTED -> EXECUTED or
\* ACTIVE -> EXECUTED, and never leaves EXECUTED.
StatusOnlyAdvances ==
    [][\A h \in DOMAIN strategies :
           StatusStep(strategies[h].status, strategies'[h].status)]_vars

\* C8: the monitoring loop never updates the price tracking of, nor decides to
\* sell for, a strategy whose executed flag is already true.
ExecutedNeverMonitored ==
    [][\A k \in DOMAIN tasks :
           (/\ tasks[k].pc = "price"
            /\ tasks'[k] # tasks[k]
            /\ tasks[k].strategy_id \in DOMAIN active_strategies
            /\ strategies[active_strategies[tasks[k].strategy_id]].executed)
           => /\ strategies' = strategies
              /\ tasks'[k].pc # "sell"]_vars

\* C9: a take-profit trigger for a strategy with tp_sell_percentage p < 100 and
\* tp_executed false submits a sell of exactly p % of the remaining quantity;
\* when a partial sell is filled for less than the remaining quantity, the
\* quantity goes down by the executed quantity, status becomes
\* PARTIAL_EXECUTED, tp_executed becomes true, and the handler of that fill
\* leaves the strategy in the active set.
PartialTakeProfit ==
    [][/\ \A k \in DOMAIN tasks :
              (DecidesToSell(k) /\ StartsWithTakeProfit(tasks'[k].reason)) =>
                  LET s == strategies'[tasks'[k].sell_strategy]
                  IN  (s.tp_sell_percentage < 100 /\ ~s.tp_executed) =>
                          /\ tasks'[k].is_partial_sell
                          /\ tasks'[k].sell_quantity * 100
                                 = s.quantity * s.tp_sell_percentage
       /\ \A o \in DOMAIN orders : \A detailed \in BOOLEAN, id_type \in OrderIdTypes :
              \A executed_qty \in ExecutedChoices(orders[o].requested) :
                  (/\ OrderFilled(o, detailed, executed_qty, id_type)
                   /\ CompletionBegins(o)
                   /\ orders[o].callbacks[1].is_partial_sell
                   /\ executed_qty < strategies[orders'[o].strategy].quantity)
                  => LET h == orders'[o].strategy
                     IN  /\ strategies'[h].quantity
                                = strategies[h].quantity - executed_qty
                         /\ strategies'[h].status = "PARTIAL_EXECUTED"
                         /\ strategies'[h].tp_executed
                         /\ orders[o].callbacks[1].strategy_id
                                \in DOMAIN active_strategies'
       /\ \A o \in DOMAIN orders :
              (/\ OrderCallbackReturns(o)
               /\ orders[o].callbacks[1].is_partial_sell
               /\ strategies[orders[o].strategy].status = "PARTIAL_EXECUTED"
               /\ orders[o].callbacks[1].strategy_id \in DOMAIN active_strategies)
              => orders[o].callbacks[1].strategy_id \in DOMAIN active_strategies'
      ]_vars

\* C10: for a strategy with tp_sell_percentage < 100, no two sell orders with a
\* take-profit reason are submitted: never are two of them in flight.
TakeProfitSubmittedOnce ==
    \A o1, o2 \in DOMAIN orders :
        (/\ o1 < o2
         /\ orders[o1].sold_for = orders[o2].sold_for
         /\ strategies[orders[o1].sold_for].tp_sell_percentage < 100
         /\ orders[o1].callbacks # <<>>
         /\ orders[o2].callbacks # <<>>)
        => ~(/\ StartsWithTakeProfit(orders[o1].callbacks[1].reason)
             /\ StartsWithTakeProfit(orders[o2].callbacks[1].reason))

FullExitEndState ==
    \A o \in DOMAIN orders :
        (orders[o].pc = "callback" /\ ~orders[o].callbacks[1].is_partial_sell)
        => /\ strategies[orders[o].strategy].status = "EXECUTED"
           /\ strategies[orders[o].strategy].quantity = 0

\* C13: a step of the monitor of an order that was placed for one strategy
\* (the handling of its fill, up to and after the observers) changes no field
\* of any other strategy, removes no other strategy from the active set and
\* cancels no other strategy's monitoring task.
StrategyIsolation ==
    [][\A o \in DOMAIN orders :
           (orders[o].pc \in {"poll", "callback"} /\ orders'[o] # orders[o])
           => \A h \in DOMAIN strategies :
                  h # orders[o].sold_for
                  => /\ strategies'[h] = strategies[h]
                     /\ h \in ActiveDicts =>
                            h \in {active_strategies'[id] :
                                       id \in DOMAIN active_strategies'}
                     /\ tasks'[h].pc = "cancelled" => tasks[h].pc = "cancelled"]_vars

\* C14: add_strategy never returns an id that is already in the active set:
\* every call adds one entry.
StrategyIdsUnique ==
    [][Len(strategies') > Len(strategies)
           => /\ tasks'[Len(tasks')].strategy_id \notin DOMAIN active_strategies
              /\ Cardinality(DOMAIN active_strategies')
                     = Cardinality(DOMAIN active_strategies) + 1]_vars

\* C15: when execute_market_sell returns no order for a strategy's sell, each
\* sell observer is called once, with the reason followed by _FAILED and with
\* the buy price as the sell price; then _execute_sell returns False and the
\* loop ends; no field of any strategy and no membership of the active set
\* changes on the way.
FailedPlacement ==
    [][\A k \in DOMAIN tasks :
           /\ (tasks[k].pc = "sell" /\ tasks'[k].pc = "failed")
              => /\ Len(tasks'[k].notification) = SellCallbacks
                 /\ tasks'[k].notification[1].reason = tasks[k].reason \o "_FAILED"
                 /\ tasks'[k].notification[1].sell_price
                        = strategies[tasks[k].sell_strategy].buy_price
                 /\ tasks'[k].notification[1].buy_price
                        = strategies[tasks[k].sell_strategy].buy_price
                 /\ UNCHANGED <<strategies, active_strategies, orders>>
           /\ (tasks[k].pc = "sell" /\ tasks'[k].pc \in {"done", "sleep"}
                 /\ orders' = orders)
              => SellCallbacks = 0
           /\ MonitorFailureNotified(k)
              => /\ tasks'[k].pc = "done"
                 /\ UNCHANGED <<strategies, active_strategies, orders>>]_vars

\* C15, its case: the observer is being told of a failed stop-loss sell of a
\* strategy that is still active and untouched.
FailureBeingNotified ==
    \E k \in DOMAIN tasks :
        /\ tasks[k].pc = "failed"
        /\ tasks[k].notification[1].reason = "STOP_LOSS_FAILED"
        /\ tasks[k].strategy_id \in DOMAIN active_strategies
        /\ strategies[active_strategies[tasks[k].strategy_id]].status = "ACTIVE"

\* C16: every fill of a strategy's sell order for which the sell callback is
\* run gets the sell observers invoked: the handler reaches its await of the
\* observers.
EveryFillNotified ==
    [][\A o \in DOMAIN orders :
           orders'[o].fired > orders[o].fired => orders'[o].pc = "callback"]_vars

\* C17: in every reachable state and for every id, remove_strategy on an id
\* of the active set returns True and leaves the id in neither
\* active_strategies nor monitoring_tasks; a second call on the same id
\* returns False and leaves active_strategies, monitoring_tasks and the tasks
\* as the first call left them.
RemoveIdempotent ==
    \A strategy_id \in StrategyIds :
        LET first == Removed(ManagerState, strategy_id)
            second == Removed(first, strategy_id)
        IN  /\ first.result = (strategy_id \in DOMAIN active_strategies)
            /\ strategy_id \notin DOMAIN first.active_strategies
            /\ strategy_id \notin DOMAIN first.monitoring_tasks
            /\ second = [first EXCEPT !.result = FALSE]

\* C17, its case: remove_strategy has removed a strategy that was not
\* executed and cancelled its monitoring task; the id is gone.
StrategyRemoved ==
    \E h \in DOMAIN strategies :
        /\ ~strategies[h].executed
        /\ tasks[h].pc = "cancelled"
        /\ tasks[h].strategy_id \notin DOMAIN active_strategies
        /\ tasks[h].strategy_id \notin DOMAIN monitoring_tasks

\* the strategy dict h has been taken out by remove_strategy: it is not
\* executed, it is in no entry of the active set, its task is cancelled
WasRemoved(h) ==
    /\ h \in DOMAIN strategies
    /\ h \notin ActiveDicts
    /\ ~strategies[h].executed
    /\ tasks[h].pc = "cancelled"

\* C18: a successful remove_strategy(id) leaves id in neither map; once a
\* strategy has been removed no further sell order is submitted for it, and
\* a step of the monitor of one of its earlier sell orders (the late fill
\* and its callback) changes no strategy and no entry of the two maps.
Cancellation ==
    [][/\ \A strategy_id \in DOMAIN active_strategies :
              RemoveStrategy(strategy_id) =>
                  /\ strategy_id \notin DOMAIN active_strategies'
                  /\ strategy_id \notin DOMAIN monitoring_tasks'
       /\ \A h \in DOMAIN strategies :
              WasRemoved(h) =>
                  /\ \A o \in DOMAIN orders' \ DOMAIN orders :
                         orders'[o].sold_for # h
                  /\ \A o \in DOMAIN orders :
                         (orders[o].sold_for = h /\ orders'[o] # orders[o]) =>
                             UNCHANGED <<strategies, active_strategies,
                                         monitoring_tasks>>]_vars

\* C19: every strategy of the active set that is not executed has a
\* monitoring task that has not terminated.
ActiveIsMonitored ==
    \A strategy_id \in DOMAIN active_strategies :
        ~strategies[active_strategies[strategy_id]].executed =>
            /\ strategy_id \in DOMAIN monitoring_tasks
            /\ tasks[monitoring_tasks[strategy_id]].pc \notin {"done", "cancelled"}

\* C20: no order is the end of a chain of more than MAX_RETRY_ATTEMPTS
\* replacement orders placed after REJECTED, EXPIRED or CANCELED statuses.
RetryBudgetRespected ==
    \A o \in DOMAIN orders : Replacements(o) <= MaxRetryAttempts

\* C21: a call of execute_market_buy calls create_market_buy_order at most
\* MAX_RETRY_ATTEMPTS + 1 times, calls it again only after an error that
\* says the symbol is not tradable yet, and after any other error makes no
\* further attempt and raises the error to its caller.
BuyRetryClassification ==
    \A k \in DOMAIN tasks :
        tasks[k].op = "buy" =>
            /\ tasks[k].attempts <= MaxRetryAttempts + 1
            /\ (tasks[k].attempts > 1 /\ tasks[k].api_retry_count = 0
                    /\ tasks[k].pc = "place")
                   => tasks[k].outcome \in NotYetTradable
            /\ (tasks[k].pc = "done" /\ tasks[k].outcome = "other error")
                   => tasks[k].result = "raised"

\* C22: a call of execute_market_sell calls create_market_sell_order at most
\* max_retries + 1 times; it returns the order of the first call that gave
\* an order id and places nothing after it; it returns None only after
\* max_retries + 1 calls that gave none; it never raises.
SellRetryBound ==
    \A k \in DOMAIN tasks :
        tasks[k].op = "sell" =>
            /\ tasks[k].attempts <= SellMaxRetries + 1
            /\ tasks[k].posts <= SellMaxRetries + 1
            /\ tasks[k].placed <= 1
            /\ tasks[k].placed = 1 =>
                   tasks[k].pc = "done" /\ tasks[k].result = "order"
            /\ tasks[k].pc = "done" =>
                   /\ tasks[k].result \in {"order", "None"}
                   /\ tasks[k].result = "order" => tasks[k].placed = 1
                   /\ tasks[k].result = "None" =>
                          /\ tasks[k].placed = 0
                          /\ tasks[k].posts = SellMaxRetries + 1

\* C22, its case: a call of execute_market_sell has returned the order of
\* its last allowed attempt.
SellPlacedAtLastAttempt ==
    \E k \in DOMAIN tasks :
        /\ tasks[k].op = "sell" /\ tasks[k].pc = "done"
        /\ tasks[k].result = "order"
        /\ tasks[k].posts = SellMaxRetries + 1

\* the larger of the amount asked and the configured minimum
AtLeastMinimum(usdt_amount) ==
    IF usdt_amount < MinOrderUsdt THEN MinOrderUsdt ELSE usdt_amount

\* C23 as stated: every order request of a buy call is for exactly the
\* configured minimum if the amount asked is below it, and for exactly the
\* amount asked otherwise; no call ends without an order request.
MinimumNotionalExact ==
    \A k \in DOMAIN tasks :
        tasks[k].op = "buy" =>
            /\ tasks[k].posts > 0 => tasks[k].posted = AtLeastMinimum(tasks[k].asked)
            /\ tasks[k].pc = "done" => tasks[k].posts > 0

\* C23 as amended: every order request of a buy call is for the multiple of
\* 0.0001 USDT nearest to the larger of the amount asked and the configured
\* minimum; no call ends without an order request.
MinimumNotionalRounded ==
    \A k \in DOMAIN tasks :
        tasks[k].op = "buy" =>
            /\ tasks[k].posts > 0 =>
                   LET posted == tasks[k].posted
                       wanted == AtLeastMinimum(tasks[k].asked)
                   IN  /\ posted % 10 = 0
                       /\ posted - wanted < 5
                       /\ wanted - posted < 5
            /\ tasks[k].pc = "done" => tasks[k].posts > 0

\* C23, its case: a buy of 0.3 USDT was placed as an order of 1.0 USDT and
\* a buy of 1.23456 USDT as an order of 1.2346 USDT.
MinimumApplied ==
    \E j, k \in DOMAIN tasks :
        /\ tasks[j].op = "buy" /\ tasks[j].placed = 1
        /\ tasks[j].asked = 30000 /\ tasks[j].posted = MinOrderUsdt
        /\ tasks[k].op = "buy" /\ tasks[k].placed = 1
        /\ tasks[k].asked = 123456 /\ tasks[k].posted = 123460

\* C24: the step in which a monitor finds its time is up sets the order's
\* status to TIMEOUT, ends the monitor, invokes no callback and places no
\* order; an order with status TIMEOUT has never had a callback invoked, is
\* replaced by no order, and its monitor and status never change again.
MonitoringTimeout ==
    [][\A o \in DOMAIN orders :
          /\ OrderTimeout(o) =>
                 /\ orders'[o].status = "TIMEOUT"
                 /\ orders'[o].pc = "done"
                 /\ orders'[o].invoked = orders[o].invoked
                 /\ orders'[o].callbacks = orders[o].callbacks
                 /\ Len(orders') = Len(orders)
          /\ orders[o].status = "TIMEOUT" =>
                 /\ orders[o].pc = "done" /\ orders[o].invoked = <<>>
                 /\ orders'[o].pc = "done" /\ orders'[o].status = "TIMEOUT"
                 /\ orders'[o].invoked = <<>>
                 /\ \A n \in DOMAIN orders' : orders'[n].replaces # o]_vars

\* C24, its case: the monitor of an order with registered callbacks has
\* timed out.
TimedOutWithCallbacks ==
    \E o \in DOMAIN orders :
        orders[o].status = "TIMEOUT" /\ orders[o].callbacks # <<>>

\* C29: when an order with registered callbacks is observed FILLED its
\* first callback is invoked; while the callbacks run, the callbacks invoked
\* so far are the first ones of the list, in the order of registration; and
\* the monitor ends only when every callback of the list has been invoked.
FanoutInOrder ==
    [][\A o \in DOMAIN orders :
          /\ (orders[o].pc = "poll" /\ orders'[o].filled
                  /\ orders[o].callbacks # <<>>)
                 => /\ orders'[o].pc = "callback"
                    /\ orders'[o].invoked = <<orders[o].callbacks[1].name>>
          /\ orders'[o].pc = "callback"
                 => orders'[o].invoked =
                        SubSeq(Names(orders'[o].callbacks), 1,
                               Len(orders'[o].invoked))
          /\ (orders[o].pc = "callback" /\ orders'[o].pc = "done")
                 => orders[o].invoked = Names(orders[o].callbacks)]_vars

ObserverFailureIsolated ==
    [][\A o \in DOMAIN orders :
          OrderCallbackReturns(o) =>
              /\ orders'[o].pc = "done"
              /\ orders'[o].callbacks = <<>>
              /\ strategies[orders[o].strategy].executed =>
                     /\ orders[o].callbacks[1].strategy_id
                            \notin DOMAIN active_strategies'
                     /\ orders[o].callbacks[1].strategy_id
                            \notin DOMAIN monitoring_tasks']_vars

\* C25: no strategy of the active set has a buy price of zero or less.
BuyPriceValid ==
    \A h \in ActiveDicts : strategies[h].buy_price > 0

\* C26: every strategy of the active set whose take-profit and stop-loss
\* percentages are positive has take_profit_price > buy_price >
\* stop_loss_price, and no step changes any of the three prices.
TargetPricesOrdered ==
    [][\A h \in DOMAIN strategies' :
          /\ (h \in {active_strategies'[id] : id \in DOMAIN active_strategies'}
                  /\ config.take_profit_percentage > 0
                  /\ config.stop_loss_percentage > 0)
                 => /\ strategies'[h].take_profit_price > strategies'[h].buy_price
                    /\ strategies'[h].buy_price > strategies'[h].stop_loss_price
          /\ h \in DOMAIN strategies
                 => /\ strategies'[h].take_profit_price = strategies[h].take_profit_price
                    /\ strategies'[h].buy_price = strategies[h].buy_price
                    /\ strategies'[h].stop_loss_price = strategies[h].stop_loss_price]_vars

\* C27: a loop iteration that begins when time_based_minutes > 0 and the
\* time since creation has reached it fetches no price but submits a sell of
\* the strategy's whole quantity with reason TIME_BASED; the loop ends when
\* that sell returns; with time_based_minutes = 0 no sell has the reason
\* TIME_BASED.
TimeBasedExit ==
    [][\A k \in DOMAIN tasks :
          LET id == tasks[k].strategy_id
          IN  /\ ((MonitorStart(k) \/ MonitorWake(k))
                      /\ tasks'[k].pc \in {"price", "sell"})
                     => LET s == strategies[active_strategies[id]]
                            due == /\ s.time_based_minutes > 0
                                   /\ now - s.start_time >= s.time_based_minutes
                        IN  IF due
                            THEN /\ tasks'[k].pc = "sell"
                                 /\ tasks'[k].reason = "TIME_BASED"
                                 /\ ~tasks'[k].is_partial_sell
                                 /\ tasks'[k].sell_quantity = s.quantity
                            ELSE tasks'[k].pc = "price"
              /\ (tasks'[k].pc = "sell" /\ tasks'[k].reason = "TIME_BASED")
                     => strategies'[tasks'[k].sell_strategy].time_based_minutes > 0
              /\ (tasks[k].pc = "sell" /\ tasks[k].reason = "TIME_BASED")
                     => tasks'[k].pc \in {"sell", "failed", "done", "cancelled"}
              /\ (tasks[k].pc = "failed"
                      /\ tasks[k].notification[1].reason = Failed("TIME_BASED"))
                     => tasks'[k].pc \in {"failed", "done", "cancelled"}]_vars

\* C27, its case: a TIME_BASED sell was placed and the loop has ended.
TimeBasedSold ==
    \E o \in DOMAIN orders :
        /\ orders[o].callbacks # <<>>
        /\ orders[o].callbacks[1].reason = "TIME_BASED"
        /\ tasks[orders[o].sold_for].pc = "done"

\* the reason tags of the notification interface
ExitReasons ==
    {"STOP_LOSS", "TRAILING_STOP", "TAKE_PROFIT", "TIME_BASED"}
        \cup {TakeProfitPartial(pct) : pct \in 0 .. 100}

ReasonTags == ExitReasons \cup {Failed(reason) : reason \in ExitReasons}

\* C28: the reason passed to the sell observers, by the handler of a fill
\* and on the failure path of a placement, is one of STOP_LOSS,
\* TRAILING_STOP, TAKE_PROFIT, TAKE_PROFIT_PARTIAL_<pct>PCT, TIME_BASED and
\* <reason>_FAILED.
ReasonTagsKnown ==
    [][/\ \A o \in DOMAIN orders : \A detailed \in BOOLEAN, id_type \in OrderIdTypes :
              \A executed_qty \in ExecutedChoices(orders[o].requested) :
                  (OrderFilled(o, detailed, executed_qty, id_type)
                       /\ CompletionBegins(o))
                  => CompletionReason(orders[o].callbacks[1].reason,
                                      orders[o].callbacks[1].is_partial_sell,
                                      executed_qty) \in ReasonTags
       /\ \A k \in DOMAIN tasks :
              (tasks[k].pc = "sell" /\ tasks'[k].pc = "failed")
                  => tasks'[k].notification[1].reason \in ReasonTags]_vars

\* C31: no step lowers the highest_price of a strategy, and the
\* highest_price of every strategy is at least its buy price.
HighestPriceMonotonic ==
    /\ [](\A h \in DOMAIN strategies :
             strategies[h].highest_price >= strategies[h].buy_price)
    /\ [][\A h \in DOMAIN strategies :
             strategies'[h].highest_price >= strategies[h].highest_price]_vars

\* C31, its case: the loop took a price below the highest price it had
\* recorded above the buy price, and the highest price stayed.
PriceFellBelowHighest ==
    \E k \in DOMAIN tasks :
        /\ tasks[k].pc = "sell"
        /\ tasks[k].current_price # NoPrice
        /\ LET s == strategies[tasks[k].sell_strategy]
           IN  /\ s.highest_price > s.buy_price
               /\ tasks[k].current_price < s.buy_price

\* C32: a price tick taken for a strategy whose trailing stop is enabled and
\* not yet activated, at a price that is at or above tsl_activation_price,
\* leaves the strategy tsl_activated with trailing_stop_price = price x
\* (1 - trailing_stop_percentage/100).
TrailingStopActivation ==
    [][\A k \in DOMAIN tasks : \A price \in TrackPrices :
          (MonitorPrice(k, price)
               /\ tasks[k].strategy_id \in DOMAIN active_strategies)
          => LET h == active_strategies[tasks[k].strategy_id]
                 s == strategies[h]
             IN  (/\ ~s.tsl_activated
                  /\ s.trailing_stop_percentage > 0
                  /\ price >= s.tsl_activation_price)
                 => /\ strategies'[h].tsl_activated
                    /\ strategies'[h].trailing_stop_price
                           = PctDown(price, s.trailing_stop_percentage)]_vars

\* C33: when an order that replaces, directly or through further
\* replacements, a sell order placed for a strategy is observed FILLED while
\* the strategy is in the active set, the strategy's completion handling
\* runs: take-profit is marked executed or the strategy is set executed, and
\* the handler reaches the sell observers.
ReplacementCompletes ==
    [][\A n \in DOMAIN orders :
          (/\ orders[n].replaces # 0
           /\ orders[n].pc = "poll"
           /\ orders'[n].filled
           /\ orders[Origin(n)].callbacks # <<>>
           /\ orders[Origin(n)].callbacks[1].strategy_id
                  \in DOMAIN active_strategies)
          => LET cb == orders[Origin(n)].callbacks[1]
                 h == active_strategies[cb.strategy_id]
             IN  /\ orders'[n].pc = "callback"
                 /\ strategies'[h].tp_executed \/ strategies'[h].executed]_vars

\* C34: an order that has been observed FILLED and whose monitor has ended
\* with no callback left in order_callbacks never has a callback in
\* order_callbacks afterwards: no callback is registered too late to be
\* invoked.
LateRegistrationInvoked ==
    [][\A o \in DOMAIN orders :
          (/\ orders[o].status = "FILLED"
           /\ orders[o].pc = "done"
           /\ orders[o].callbacks = <<>>)
          => orders'[o].callbacks = <<>>]_vars

\* C35: when an order is observed FILLED without fill details and with a
\* positive executed quantity, the monitor finds the callbacks the detailed
\* path would find, whether the exchange's order id is a string or an
\* integer, and invokes the first of them.
FallbackFindsCallbacks ==
    [][\A o \in DOMAIN orders : \A id_type \in OrderIdTypes :
          \A executed_qty \in ExecutedChoices(orders[o].requested) \ {0} :
              OrderFilledInvokes(o, FALSE, executed_qty, id_type)
              => /\ CallbacksFound(orders[o], FALSE, id_type)
                        = CallbacksFound(orders[o], TRUE, id_type)
                 /\ orders[o].callbacks # <<>>
                        => /\ orders'[o].pc = "callback"
                           /\ orders'[o].invoked = <<orders[o].callbacks[1].name>>]_vars

\* C36: when the monitor of a BUY order observes it FILLED and has the
\* details of the fill, it adds exactly one strategy, active, with the
\* average fill price as buy price and the executed quantity as quantity,
\* if no ACTIVE strategy that is not executed exists for the symbol, and
\* none if one exists; the strategy is there when the first callback of the
\* order is invoked; no step of the monitor of a SELL order adds a strategy.
AutoStrategyCreation ==
    [][\A o \in DOMAIN orders :
          /\ \A fill \in BuyFills, id_type \in OrderIdTypes :
                 BuyFilled(o, TRUE, fill, id_type)
                 => IF \E id \in DOMAIN active_strategies :
                           LET s == strategies[active_strategies[id]]
                           IN  /\ s.symbol = orders[o].symbol
                               /\ s.status = "ACTIVE"
                               /\ ~s.executed
                    THEN UNCHANGED <<strategies, active_strategies>>
                    ELSE LET k == Len(strategies')
                         IN  /\ k = Len(strategies) + 1
                             /\ k \in {active_strategies'[id] :
                                           id \in DOMAIN active_strategies'}
                             /\ strategies'[k].symbol = orders[o].symbol
                             /\ strategies'[k].quantity = fill[1]
                             /\ strategies'[k].buy_price * fill[1] = fill[2]
                             /\ orders[o].callbacks # <<>>
                                    => orders'[o].invoked
                                           = <<orders[o].callbacks[1].name>>
          /\ (orders[o].side = "SELL" /\ orders'[o] # orders[o])
                 => UNCHANGED <<strategies, active_strategies>>]_vars

\* C36, its case: two BUY orders with callbacks were filled with details,
\* the first created a strategy at 100.00 for 10 units, the second found it
\* and created none.
AutoCreatedOnce ==
    /\ Len(orders) = 2
    /\ \A o \in DOMAIN orders :
           /\ orders[o].side = "BUY" /\ orders[o].filled
           /\ orders[o].invoked # <<>>
    /\ Len(strategies) = 1
    /\ strategies[1].buy_price = 10000
    /\ strategies[1].quantity = 10 * QtyUnit
    /\ 1 \in ActiveDicts

\* C37: when the fill of a partial take-profit sell is handled with an
\* executed quantity that is at least the strategy's remaining quantity, the
\* strategy is set EXECUTED with its executed flag, its quantity is not
\* lowered to zero or below, and once the observers were awaited the
\* strategy dict is in the active set no more.
PartialSellOfAllFinalizes ==
    [][\A o \in DOMAIN orders :
          /\ (CompletionBegins(o) /\ orders[o].callbacks[1].is_partial_sell)
             => \A detailed \in BOOLEAN, id_type \in OrderIdTypes :
                    \A executed_qty \in ExecutedChoices(orders[o].requested) :
                        (/\ executed_qty >= strategies[orders'[o].strategy].quantity
                         /\ OrderFilled(o, detailed, executed_qty, id_type))
                        => LET h == orders'[o].strategy
                           IN  /\ strategies'[h].status = "EXECUTED"
                               /\ strategies'[h].executed
                               /\ strategies'[h].quantity = strategies[h].quantity
          /\ (/\ orders[o].pc = "callback"
              /\ orders[o].callbacks[1].is_partial_sell
              /\ strategies[orders[o].strategy].executed
              /\ OrderCallbackReturns(o))
             => orders[o].strategy \notin
                    {active_strategies'[id] : id \in DOMAIN active_strategies'}]_vars

\* C37, its case: the fill of a partial take-profit sell that took the
\* whole remaining quantity has been handled and the strategy, EXECUTED, has
\* been removed.
PartialSellTookAll ==
    \E o \in DOMAIN orders :
        /\ orders[o].pc = "done" /\ orders[o].fired = 1
        /\ orders[o].sold_for # 0
        /\ LET s == strategies[orders[o].sold_for]
           IN  /\ s.executed /\ s.tp_executed /\ s.status = "EXECUTED"
               /\ s.quantity > 0
               /\ orders[o].requested * 100 = s.quantity * s.tp_sell_percentage
               /\ orders[o].sold_for \notin ActiveDicts
               /\ \A n \in DOMAIN orders : orders[n].fired = 1 => n = o

\* C39: when the fill of a non-partial sell is handled, whatever executed
\* quantity is reported (none, the quantity asked, more), the strategy is
\* set EXECUTED with its executed flag and its stored quantity is left as it
\* was; once the observers were awaited the strategy dict is in the active
\* set no more.
FullSellFinalizes ==
    [][\A o \in DOMAIN orders :
          /\ (CompletionBegins(o) /\ ~orders[o].callbacks[1].is_partial_sell)
             => LET h == orders'[o].strategy
                IN  /\ strategies'[h].status = "EXECUTED"
                    /\ strategies'[h].executed
                    /\ strategies'[h].quantity = strategies[h].quantity
          /\ (/\ orders[o].pc = "callback"
              /\ ~orders[o].callbacks[1].is_partial_sell
              /\ OrderCallbackReturns(o))
             => orders[o].strategy \notin
                    {active_strategies'[id] : id \in DOMAIN active_strategies'}]_vars

\* C39, its case: the fill of a stop-loss sell for the whole quantity of an
\* untouched strategy has been handled, the strategy is EXECUTED with its
\* quantity as it was, and it has been removed.
FullSellRemoved ==
    \E o \in DOMAIN orders :
        /\ orders[o].pc = "done" /\ orders[o].fired = 1
        /\ orders[o].sold_for # 0
        /\ LET s == strategies[orders[o].sold_for]
           IN  /\ s.executed /\ ~s.tp_executed /\ s.status = "EXECUTED"
               /\ s.quantity = s.original_quantity
               /\ orders[o].requested = s.quantity
               /\ orders[o].sold_for \notin ActiveDicts
               /\ \A n \in DOMAIN orders : orders[n].fired = 1 => n = o

\* C38: every strategy with trailing_stop_percentage > 0 has tsl_activated
\* true exactly when trailing_stop_price is non-null, and then
\* trailing_stop_price = highest_price x (1 - trailing_stop_percentage/100)
\* and highest_price >= tsl_activation_price.
TrailingStopConsistent ==
    \A h \in DOMAIN strategies :
        LET s == strategies[h]
        IN  s.trailing_stop_percentage > 0 =>
                /\ s.tsl_activated <=> s.trailing_stop_price # NoPrice
                /\ s.tsl_activated =>
                       /\ s.trailing_stop_price * 100
                              = s.highest_price * (100 - s.trailing_stop_percentage)
                       /\ s.highest_price >= s.tsl_activation_price

\* C38, its case: a trailing stop that was activated has been raised by a
\* higher price, and the price has fallen since.
TrailingStopRaised ==
    \E k \in DOMAIN tasks :
        /\ tasks[k].pc = "sell"
        /\ tasks[k].reason = "TRAILING_STOP"
        /\ LET s == strategies[tasks[k].sell_strategy]
           IN  /\ s.tsl_activated
               /\ s.highest_price > s.tsl_activation_price
               /\ s.tsl_activation_price > s.buy_price
               /\ tasks[k].current_price < s.highest_price

====
